---- MODULE Spec2Model ----
(***************************************************************************)
(* A model of the weather-card renderer: scripts/render.py (the HiDPI      *)
(* two-city card) and render1.py (the plain-panel card).                   *)
(*                                                                         *)
(* Conventions.                                                            *)
(*  - A Python str is a sequence of tokens; a token is one character or    *)
(*    one fixed literal of the source.  The Cyrillic literals are written  *)
(*    in Latin transliteration (the Thursday of RU_DOW is "Cht", degrees   *)
(*    Celsius "degC"), since the module is ASCII.                          *)
(*  - A Python float is a record [k, n]: k is "num" (the value n/10),      *)
(*    "nan", "inf" or "ninf".                                              *)
(*  - A JSON value held by a numeric field is a record [k, n] whose kind k *)
(*    also covers "missing", "null", "text" (a non-numeric string),        *)
(*    "numtext" (a string that parses as n/10) and "list".                 *)
(*  - A call that may raise returns [ok, s, exc]: ok = FALSE carries the   *)
(*    exception class in exc.                                              *)
(***************************************************************************)
EXTENDS Integers, Sequences, FiniteSets, TLC

VARIABLES
    fin,      \* formatter harness: the field and raw value being formatted
    fres,     \* formatter harness: the result of the formatter
    din,      \* date harness: today_iso, tz, the UTC clock, whether zoneinfo imports
    dres,     \* date harness: the result of tomorrow_label
    event,    \* the event file GITHUB_EVENT_PATH names, and the payload in it
    argv,     \* sys.argv[1] of render1.py
    assets,   \* the files of assets/fonts and assets/icons, and the system fonts
    clock,    \* what datetime.utcnow() returns during each run
    run,      \* each run of main(): its position and its local variables
    file,     \* the file at the run's output path
    cin,      \* weather-code harness: the code
    cres,     \* weather-code harness: what each use of the code chose
    areq,     \* asset harness: the font or icon asked for
    ares      \* asset harness: what load_font or load_icon returned

fmtVars == <<fin, fres>>
dateVars == <<din, dres>>

mainVars == <<event, argv, assets, clock, run, file>>

codeVars == <<cin, cres>>
assetVars == <<areq, ares>>
harnessVars == <<fmtVars, dateVars, codeVars, assetVars>>

vars == <<fin, fres, din, dres, event, argv, assets, clock, run, file, cin, cres, areq, ares>>

----------------------------------------------------------------------------
(* Bounds of the model *)

\* numeric inputs range over -MaxTenths/10 .. MaxTenths/10 in steps of 0.1
MaxTenths == 36
\* the dates tried: every day of the years BaseYear-YearSpan .. BaseYear+YearSpan,
\* and of the century years and the first and last year of datetime
YearSpan == 1
\* the cities array of a payload holds 0..MaxCities records
MaxCities == 3
\* the weather codes tried are -1..MaxCode
MaxCode == 100

----------------------------------------------------------------------------
(* Python values *)

Num(n) == [k |-> "num", n |-> n]
NaN == [k |-> "nan", n |-> 0]
PosInf == [k |-> "inf", n |-> 0]
NegInf == [k |-> "ninf", n |-> 0]

Ok(s) == [ok |-> TRUE, s |-> s, exc |-> "none"]
Raise(e) == [ok |-> FALSE, s |-> <<>>, exc |-> e]

\* dict.get(key, default): the default only when the key is missing
Get(raw, dflt) == IF raw.k = "missing" THEN dflt ELSE raw

\* to_float(x, default=0.0): float(x), and float(default) when float(x) raises
to_float(x) ==
    CASE x.k \in {"num", "numtext"} -> Num(x.n)
      [] x.k = "nan" -> NaN
      [] x.k = "inf" -> PosInf
      [] x.k = "ninf" -> NegInf
      [] OTHER -> Num(0)

\* nearest integer of n/10, a tie going away from zero
RoundHalfAway(n) == IF n >= 0 THEN (n + 5) \div 10 ELSE -((-n + 5) \div 10)

\* round(x) of a finite float n/10: nearest integer, a tie goes to the even one
RoundHalfEven(n) ==
    LET q == n \div 10
        r == n % 10
    IN  IF r < 5 THEN q
        ELSE IF r > 5 THEN q + 1
        ELSE IF q % 2 = 0 THEN q ELSE q + 1

\* int(round(f)): round() of a NaN raises ValueError, of an infinity OverflowError
IntRound(f) ==
    CASE f.k = "num" -> [ok |-> TRUE, v |-> RoundHalfEven(f.n), exc |-> "none"]
      [] f.k = "nan" -> [ok |-> FALSE, v |-> 0, exc |-> "ValueError"]
      [] OTHER -> [ok |-> FALSE, v |-> 0, exc |-> "OverflowError"]

Digit(d) == <<"0", "1", "2", "3", "4", "5", "6", "7", "8", "9">>[d + 1]

RECURSIVE Digits(_)
\* the decimal digits of a natural number
Digits(n) == IF n < 10 THEN <<Digit(n)>> ELSE Append(Digits(n \div 10), Digit(n % 10))

Abs(n) == IF n < 0 THEN -n ELSE n

\* format(i, "+d"): always a sign
FormatSigned(i) == <<IF i < 0 THEN "-" ELSE "+">> \o Digits(Abs(i))

\* format(i, ""): a sign only when negative
FormatPlain(i) == (IF i < 0 THEN <<"-">> ELSE <<>>) \o Digits(Abs(i))

fmt_temp(v) ==
    LET r == IntRound(to_float(v))
    IN  IF r.ok THEN Ok(FormatSigned(r.v)) ELSE Raise(r.exc)

fmt_temp_full(v) ==
    LET r == IntRound(to_float(v))
    IN  IF r.ok THEN Ok(FormatSigned(r.v) \o <<"degC">>) ELSE Raise(r.exc)

fmt_wind(v) ==
    LET r == IntRound(to_float(v))
    IN  IF r.ok THEN Ok(<<"veter", " ">> \o FormatPlain(r.v) \o <<" ", "m/s">>)
        ELSE Raise(r.exc)

fmt_rain(p) ==
    LET r == IntRound(to_float(p))
    IN  IF r.ok THEN Ok(<<"dozhd", " ">> \o FormatPlain(r.v) \o <<"%">>)
        ELSE Raise(r.exc)

----------------------------------------------------------------------------
(* The formatters applied to one numeric field of a city record, as         *)
(* draw_city_card applies them.                                             *)

RawVals ==
    {[k |-> kk, n |-> nn] : kk \in {"num", "numtext"}, nn \in -MaxTenths..MaxTenths}
    \cup {[k |-> kk, n |-> 0] : kk \in {"missing", "null", "text", "list", "nan", "inf", "ninf"}}

NumFields == {"temp", "wind", "tmin", "tmax", "precip_prob"}

NoRes == [ok |-> TRUE, s |-> <<>>, exc |-> "none", by |-> "none"]

By(r, f) == [ok |-> r.ok, s |-> r.s, exc |-> r.exc, by |-> f]

FmtInit ==
    /\ fin \in [field : NumFields, raw : RawVals]
    /\ fres = NoRes

\* ttext = fmt_temp(cur.get("temp",0))
FmtTemp ==
    /\ fres.by = "none"
    /\ fin.field = "temp"
    /\ fres' = By(fmt_temp(Get(fin.raw, Num(0))), "fmt_temp")
    /\ UNCHANGED <<fin, dateVars, mainVars, codeVars, assetVars>>

\* fmt_temp_full(daily.get('tmin',0)), fmt_temp_full(daily.get('tmax',0))
FmtTempFull ==
    /\ fres.by = "none"
    /\ fin.field \in {"tmin", "tmax"}
    /\ fres' = By(fmt_temp_full(Get(fin.raw, Num(0))), "fmt_temp_full")
    /\ UNCHANGED <<fin, dateVars, mainVars, codeVars, assetVars>>

\* wnd = fmt_wind(cur.get('wind',0))
FmtWind ==
    /\ fres.by = "none"
    /\ fin.field = "wind"
    /\ fres' = By(fmt_wind(Get(fin.raw, Num(0))), "fmt_wind")
    /\ UNCHANGED <<fin, dateVars, mainVars, codeVars, assetVars>>

\* rain = fmt_rain(daily.get('precip_prob',0))
FmtRain ==
    /\ fres.by = "none"
    /\ fin.field = "precip_prob"
    /\ fres' = By(fmt_rain(Get(fin.raw, Num(0))), "fmt_rain")
    /\ UNCHANGED <<fin, dateVars, mainVars, codeVars, assetVars>>

----------------------------------------------------------------------------
(* tomorrow_label: datetime.strptime, datetime + timedelta(days=1), .date(), *)
(* .weekday(), computed on proleptic Gregorian ordinals as datetime does.    *)

RU_DOW == <<"Pn", "Vt", "Sr", "Cht", "Pt", "Sb", "Vs">>
RU_MON == <<"yanv", "fev", "mar", "apr", "may", "iyun", "iyul", "avg", "sen", "okt", "noya", "dek">>

MINYEAR == 1
MAXYEAR == 9999

IsLeap(y) == y % 4 = 0 /\ (y % 100 # 0 \/ y % 400 = 0)

DaysInMonth(y, m) ==
    IF m = 2 THEN (IF IsLeap(y) THEN 29 ELSE 28)
    ELSE IF m \in {4, 6, 9, 11} THEN 30 ELSE 31

DaysBeforeYear(y) == (y - 1) * 365 + (y - 1) \div 4 - (y - 1) \div 100 + (y - 1) \div 400

DAYS_BEFORE_MONTH == <<0, 31, 59, 90, 120, 151, 181, 212, 243, 273, 304, 334>>

DaysBeforeMonth(y, m) == DAYS_BEFORE_MONTH[m] + (IF m > 2 /\ IsLeap(y) THEN 1 ELSE 0)

ToOrdinal(y, m, d) == DaysBeforeYear(y) + DaysBeforeMonth(y, m) + d

MAXORDINAL == ToOrdinal(MAXYEAR, 12, 31)

\* the date of an ordinal: 400-, 100-, 4- and 1-year cycles, then the month
FromOrdinal(ord) ==
    LET n0 == ord - 1
        n400 == n0 \div 146097
        r400 == n0 % 146097
        n100 == r400 \div 36524
        r100 == r400 % 36524
        n4 == r100 \div 1461
        r4 == r100 % 1461
        n1 == r4 \div 365
        n == r4 % 365
        year == n400 * 400 + 1 + n100 * 100 + n4 * 4 + n1
        leap == n1 = 3 /\ (n4 # 24 \/ n100 = 3)
        m0 == (n + 50) \div 32
        p0 == DAYS_BEFORE_MONTH[m0] + (IF m0 > 2 /\ leap THEN 1 ELSE 0)
        month == IF p0 > n THEN m0 - 1 ELSE m0
        prec == IF p0 > n
                THEN p0 - ((IF month = 2 /\ leap THEN 29
                            ELSE IF month = 2 THEN 28
                            ELSE IF month \in {4, 6, 9, 11} THEN 30 ELSE 31))
                ELSE p0
    IN  IF n1 = 4 \/ n100 = 4 THEN <<year - 1, 12, 31>>
        ELSE <<year, month, n - prec + 1>>

\* the day of the week counted from Sunday, as strftime("%w") counts it
Weekday_FromSunday(ord) == ord % 7

\* date.weekday(): Monday is 0
Weekday(ord) == (ord + 6) % 7

\* datetime.strptime(today_iso, "%Y-%m-%d") succeeds on a string of that form
\* naming a day of the calendar
Strptime(t) ==
    /\ t.k = "iso"
    /\ t.y \in MINYEAR..MAXYEAR
    /\ t.m \in 1..12
    /\ t.d \in 1..DaysInMonth(t.y, t.m)

KnownZones == {"Europe/Moscow"}

\* tomorrow_label(today_iso, tz); now is what datetime.utcnow() returns and
\* zi whether the import of ZoneInfo succeeded.  The tzinfo that replace()
\* attaches takes no part in d0 + timedelta(days=1) nor in .date()
tomorrow_label(today_iso, tz, now, zi) ==
    LET d0 == IF Strptime(today_iso) THEN <<today_iso.y, today_iso.m, today_iso.d>> ELSE now
        tzinfo == IF zi /\ tz # "" /\ tz \in KnownZones THEN tz ELSE "naive"
        ord1 == ToOrdinal(d0[1], d0[2], d0[3]) + 1
        d1 == FromOrdinal(ord1)
    IN  IF ord1 > MAXORDINAL THEN Raise("OverflowError")
        ELSE Ok(<<RU_DOW[Weekday(ord1) + 1], ",", " ">> \o Digits(d1[3])
                \o <<" ", RU_MON[d1[2]]>>)

BaseYear == 2024

Years == {MINYEAR, 1900, 2000, 2100, MAXYEAR} \cup ((BaseYear - YearSpan)..(BaseYear + YearSpan))

Iso(y, m, d) == [k |-> "iso", y |-> y, m |-> m, d |-> d]

\* payload.get("date",""): a YYYY-MM-DD string (of a real day or not), "" when
\* the key is missing, some other text, or null
DateVals ==
    {Iso(y, m, d) : y \in Years, m \in 1..12, d \in 1..31}
    \cup {[k |-> kk, y |-> 0, m |-> 0, d |-> 0] : kk \in {"empty", "text", "null"}}

TzVals == {"", "Europe/Moscow", "Mars/Phobos"}

Clocks == {<<2026, 10, 31>>, <<2026, 11, 1>>}

NoLabel == [ok |-> TRUE, s |-> <<>>, exc |-> "none", by |-> "none"]

DateInit ==
    /\ din \in [date : DateVals, tz : TzVals, now : Clocks, zi : BOOLEAN]
    /\ dres = NoLabel

\* chip = tomorrow_label(payload.get("date",""), payload.get("tz",""))
TomorrowLabel ==
    /\ dres.by = "none"
    /\ dres' = By(tomorrow_label(din.date, din.tz, din.now, din.zi), "tomorrow_label")
    /\ UNCHANGED <<din, fmtVars, mainVars, codeVars, assetVars>>

----------------------------------------------------------------------------
(* Weather codes: condition text, sky gradient, icon *)

\* int(x) of a float: truncation toward zero; raises on NaN and infinities
IntTrunc(f) ==
    CASE f.k = "num" -> [ok |-> TRUE, v |-> IF f.n >= 0 THEN f.n \div 10 ELSE -((-f.n) \div 10),
                         exc |-> "none"]
      [] f.k = "nan" -> [ok |-> FALSE, v |-> 0, exc |-> "ValueError"]
      [] OTHER -> [ok |-> FALSE, v |-> 0, exc |-> "OverflowError"]

\* condition_ru(code), c = int(to_float(code)) of an int
condition_ru(c) ==
    IF c \in {0, 1} THEN "Yasno"
    ELSE IF c = 2 THEN "Peremennaya oblachnost"
    ELSE IF c = 3 THEN "Oblachno"
    ELSE IF c \in {45, 48} THEN "Tuman"
    ELSE IF c \in {51, 53, 55} THEN "Moros"
    ELSE IF c \in {61, 63, 65, 80, 81, 82} THEN "Nebolshoy dozhd"
    ELSE IF c \in {66, 67} THEN "Ledyanoy dozhd"
    ELSE IF c \in {71, 73, 75, 77, 85, 86} THEN "Sneg"
    ELSE IF c \in {95, 96, 99} THEN "Groza"
    ELSE "Oblachno"

GRAD_CLEAR == <<<<25, 54, 109>>, <<10, 22, 55>>>>
GRAD_RAIN == <<<<28, 58, 86>>, <<9, 26, 43>>>>
GRAD_SNOW == <<<<38, 68, 108>>, <<13, 29, 58>>>>
GRAD_STORM == <<<<53, 38, 94>>, <<20, 16, 40>>>>
GRAD_CLOUDY == <<<<30, 52, 84>>, <<11, 22, 46>>>>

\* grad_by_code(code): (top, bottom) colours of the sky
grad_by_code(c) ==
    IF c \in {0, 1} THEN GRAD_CLEAR
    ELSE IF c \in {61, 63, 65, 80, 81, 82, 51, 53} THEN GRAD_RAIN
    ELSE IF c \in {71, 73, 75, 77, 85, 86} THEN GRAD_SNOW
    ELSE IF c \in {95, 96, 99} THEN GRAD_STORM
    ELSE GRAD_CLOUDY

\* the file name icon_path picks for a code, before the existence test
icon_name(c) ==
    IF c \in {95, 96, 99} THEN "storm.png"
    ELSE IF c \in {71, 73, 75, 77, 85, 86} THEN "snow.png"
    ELSE IF c \in {61, 63, 65, 80, 81, 82, 51, 53, 55} THEN "rain.png"
    ELSE IF c \in {0, 1} THEN "sun.png"
    ELSE "cloud.png"

\* main: if dom_code in (61,63,65,80,81,82,51,53,55): draw_rain_overlay
rain_overlay(c) == c \in {61, 63, 65, 80, 81, 82, 51, 53, 55}

IconNames == {"sun.png", "cloud.png", "rain.png", "snow.png", "storm.png"}
FileStates == {"ok", "missing", "corrupt"}

\* icon_path(code): the icon of the code when that file exists, else cloud.png;
\* icons maps each file name of ICONS_DIR to "ok", "missing" or "corrupt"
icon_path(c, icons) ==
    IF icons[icon_name(c)] # "missing" THEN icon_name(c) ELSE "cloud.png"

\* load_icon(code, height): the image opened from icon_path(code), or a
\* transparent 256x256 image when Image.open(...).convert raises
load_icon(c, icons) ==
    IF icons[icon_path(c, icons)] = "ok" THEN icon_path(c, icons) ELSE "transparent"

----------------------------------------------------------------------------
(* Fonts.  FONTS_DIR is a sequence of files [name, st] in the order glob    *)
(* yields them; st is "ok" or "corrupt".  sys tells whether the DejaVu      *)
(* files of the system load.                                                *)

FontNames == {"Roboto-Bold.ttf", "Roboto-Regular.ttf", "Custom.ttf"}

Exists(dir, name) == \E i \in 1..Len(dir) : dir[i].name = name

IndexOf(dir, name) == (CHOOSE i \in 1..Len(dir) : dir[i].name = name)

RECURSIVE FirstLoadable(_, _)
\* for cand in FONTS_DIR.glob("*.ttf"): try: return truetype(cand) except: pass
FirstLoadable(dir, i) ==
    IF i > Len(dir) THEN "none"
    ELSE IF dir[i].st = "ok" THEN dir[i].name
    ELSE FirstLoadable(dir, i + 1)

\* load_font(size, bold)
load_font(bold, dir, sys) ==
    LET pref == IF bold THEN "Roboto-Bold.ttf" ELSE "Roboto-Regular.ttf"
    IN  IF Exists(dir, pref)
        THEN (IF dir[IndexOf(dir, pref)].st = "ok" THEN Ok(<<pref>>) ELSE Raise("OSError"))
        ELSE IF FirstLoadable(dir, 1) # "none" THEN Ok(<<FirstLoadable(dir, 1)>>)
        ELSE IF sys THEN Ok(<<IF bold THEN "DejaVuSans-Bold.ttf" ELSE "DejaVuSans.ttf">>)
        ELSE Ok(<<"load_default">>)

----------------------------------------------------------------------------
(* The payload *)

Missing == [k |-> "missing", n |-> 0]

\* a city record: null, or an object whose "current" and "daily" are missing,
\* null or objects
CityNull ==
    [k |-> "null", name |-> <<>>, cur |-> "missing", temp |-> Missing, wind |-> Missing,
     code |-> Missing, daily |-> "missing", tmin |-> Missing, tmax |-> Missing,
     precip_prob |-> Missing]

CityEmpty == [CityNull EXCEPT !.k = "dict"]

Moscow ==
    [k |-> "dict", name |-> <<"Moscow">>, cur |-> "dict", temp |-> Num(184), wind |-> Num(32),
     code |-> Num(610), daily |-> "dict", tmin |-> Num(120), tmax |-> Num(200),
     precip_prob |-> Num(700)]

Novokuznetsk ==
    [k |-> "dict", name |-> <<"Novokuznetsk">>, cur |-> "dict", temp |-> Num(97),
     wind |-> Num(50), code |-> Num(0), daily |-> "dict", tmin |-> Num(40), tmax |-> Num(110),
     precip_prob |-> Num(50)]

\* a record whose temperature is the JSON literal NaN
CityNaN == [Moscow EXCEPT !.name = <<"Nowhere">>, !.temp = NaN, !.code = Num(30)]

CityVals == {CityNull, CityEmpty, Moscow, Novokuznetsk, CityNaN}

RECURSIVE SeqsUpTo(_, _)
SeqsUpTo(S, n) ==
    IF n = 0 THEN {<<>>}
    ELSE LET T == SeqsUpTo(S, n - 1)
         IN  T \cup {Append(t, x) : t \in {u \in T : Len(u) = n - 1}, x \in S}

Str(s) == [k |-> "str", s |-> s, n |-> 0]
IntVal(n) == [k |-> "int", s |-> <<>>, n |-> n]
NoJobId == [k |-> "missing", s |-> <<>>, n |-> 0]

NullJobId == [k |-> "null", s |-> <<>>, n |-> 0]

\* job_id: missing, null, "abc123", " a1 ", "", " ", 0, 42
JobIdVals ==
    {NoJobId, NullJobId, Str(<<"a", "b", "c", "1", "2", "3">>), Str(<<" ", "a", "1", " ">>),
     Str(<<>>), Str(<<" ">>), IntVal(0), IntVal(42)}

NoDate == [k |-> "empty", y |-> 0, m |-> 0, d |-> 0]

\* the payload {}: every key missing
EmptyPayload == [k |-> "dict", job_id |-> NoJobId, date |-> NoDate, tz |-> "", cities |-> <<>>]

\* a client_payload that is JSON text, not an object
TextPayload == [EmptyPayload EXCEPT !.k = "text"]

Payloads(jobs, dates, tzs, cityseqs) ==
    [k : {"dict"}, job_id : jobs, date : dates, tz : tzs, cities : cityseqs]

\* GITHUB_EVENT_PATH: unset, naming no file, naming a file that cannot be
\* opened, that holds no JSON, that holds JSON other than an object, or an
\* object whose client_payload is missing, null, text or an object
EventKinds ==
    {"unset", "nofile", "unreadable", "badjson", "nonobject", "cp_missing", "cp_null",
     "cp_text", "cp_dict"}

Events(payloads) ==
    [k : EventKinds \ {"cp_dict"}, cp : {EmptyPayload}] \cup [k : {"cp_dict"}, cp : payloads]

\* load_payload()
load_payload(ev) ==
    CASE ev.k \in {"unset", "nofile"} -> [ok |-> TRUE, exc |-> "none", p |-> EmptyPayload]
      [] ev.k = "unreadable" -> [ok |-> FALSE, exc |-> "OSError", p |-> EmptyPayload]
      [] ev.k = "badjson" -> [ok |-> FALSE, exc |-> "JSONDecodeError", p |-> EmptyPayload]
      [] ev.k = "nonobject" -> [ok |-> FALSE, exc |-> "AttributeError", p |-> EmptyPayload]
      [] ev.k \in {"cp_missing", "cp_null"} -> [ok |-> TRUE, exc |-> "none", p |-> EmptyPayload]
      [] ev.k = "cp_text" -> [ok |-> TRUE, exc |-> "none", p |-> TextPayload]
      [] OTHER -> [ok |-> TRUE, exc |-> "none", p |-> ev.cp]

----------------------------------------------------------------------------
(* job_id and the output path *)

Whitespace == {" ", "\t", "\n"}

RECURSIVE LStrip(_)
LStrip(s) == IF s # <<>> /\ Head(s) \in Whitespace THEN LStrip(Tail(s)) ELSE s

RECURSIVE RStrip(_)
RStrip(s) ==
    IF s # <<>> /\ s[Len(s)] \in Whitespace THEN RStrip(SubSeq(s, 1, Len(s) - 1)) ELSE s

\* str.strip()
Strip(s) == RStrip(LStrip(s))

\* bool(x) of a job_id value
Truthy(j) == (j.k = "str" /\ j.s # <<>>) \/ (j.k = "int" /\ j.n # 0)

\* str(x)
PyStr(j) ==
    IF j.k = "str" THEN j.s
    ELSE IF j.k = "int" THEN FormatPlain(j.n)
    ELSE <<"N", "o", "n", "e">>

NO_JOB == <<"n", "o", "_", "j", "o", "b">>

\* the job_id without the .strip()
job_id_unstripped(p) == IF Truthy(p.job_id) THEN PyStr(p.job_id) ELSE NO_JOB

\* job_id = str(payload.get("job_id") or "no_job").strip()
job_id_of(p) == Strip(IF Truthy(p.job_id) THEN PyStr(p.job_id) ELSE NO_JOB)

\* out_path = OUT_DIR / f"{job_id}.png"
out_path_of(job) == <<"weather", "/">> \o job \o <<".png">>

----------------------------------------------------------------------------
(* Geometry and decoration constants *)

BASE_W == 1600
BASE_H == 900
SCALE == 2
W == BASE_W * SCALE
H == BASE_H * SCALE

\* the grid of main: margin_x, cw, cx1, cx2
margin_x == 64 * SCALE
cw == (W - margin_x * 3) \div 2
cx(i) == IF i = 1 THEN margin_x + cw \div 2 ELSE margin_x * 2 + cw + cw \div 2

\* draw_rain_overlay(bg, intensity=0.10): streaks from (x, y) to (x+ln, y+ln)
\* for x in range(-ln, W, step), y in range(0, H, ystep); 255*0.10 is 25
rain_streaks ==
    [step |-> 20 * SCALE, ln |-> 18 * SCALE, ystep |-> 40 * SCALE, alpha |-> 25 \div 6]

NoStreaks == [step |-> 0, ln |-> 0, ystep |-> 0, alpha |-> 0]

----------------------------------------------------------------------------
(* draw_city_card *)

\* (city or {}).get("current") or {}, then .get(field, default)
CurField(city, f, dflt) ==
    IF city.k = "dict" /\ city.cur = "dict" THEN Get(city[f], dflt) ELSE dflt

\* (city or {}).get("daily") or {}, then .get(field, default)
DailyField(city, f, dflt) ==
    IF city.k = "dict" /\ city.daily = "dict" THEN Get(city[f], dflt) ELSE dflt

RECURSIVE FirstExc(_)
\* the exception of the first call of a sequence of calls that raises
FirstExc(rs) ==
    IF rs = <<>> THEN "none"
    ELSE IF ~Head(rs).ok THEN Head(rs).exc
    ELSE FirstExc(Tail(rs))

NoCard ==
    [name |-> <<>>, chip |-> <<>>, icon |-> "none", ttext |-> <<>>, cond |-> "none",
     rng |-> <<>>, wnd |-> <<>>, rain |-> <<>>, cx |-> 0]

\* draw_city_card(canvas, cx, top, cw, ch, city, payload, fonts): what it draws,
\* or the exception it raises
draw_city_card(i, city, payload, icons, now) ==
    LET code == IntTrunc(to_float(CurField(city, "code", Num(30))))
        name == IF city.k = "dict" /\ city.name # <<>> THEN city.name ELSE <<"emdash">>
        chip == tomorrow_label(payload.date, payload.tz, now, TRUE)
        ttext == fmt_temp(CurField(city, "temp", Num(0)))
        tmin == fmt_temp_full(DailyField(city, "tmin", Num(0)))
        tmax == fmt_temp_full(DailyField(city, "tmax", Num(0)))
        wnd == fmt_wind(CurField(city, "wind", Num(0)))
        rain == fmt_rain(DailyField(city, "precip_prob", Num(0)))
        exc == FirstExc(<<[ok |-> code.ok, exc |-> code.exc], chip, ttext, tmin, tmax, wnd, rain>>)
    IN  IF exc # "none" THEN [ok |-> FALSE, exc |-> exc, card |-> NoCard]
        ELSE [ok |-> TRUE, exc |-> "none",
              card |-> [name |-> name, chip |-> chip.s, icon |-> load_icon(code.v, icons),
                        ttext |-> ttext.s, cond |-> condition_ru(code.v),
                        rng |-> tmin.s \o <<" ", "...", " ">> \o tmax.s,
                        wnd |-> wnd.s, rain |-> rain.s, cx |-> cx(i)]]

----------------------------------------------------------------------------
(* main() of scripts/render.py, one action per stretch of it that ends where *)
(* an exception can leave it.                                                *)

RunIds == {1, 2}

NewRun ==
    [script |-> "render", pc |-> "start", payload |-> EmptyPayload, job_id |-> <<>>, cities |-> <<>>,
     out_path |-> <<>>, dom_code |-> 3, grad |-> GRAD_CLOUDY, streaks |-> NoStreaks,
     fonts |-> <<>>, cards |-> <<>>, texts |-> <<>>, pasted |-> <<>>, exc |-> "none",
     at |-> "none"]

NoRun == [NewRun EXCEPT !.pc = "off"]

Finished(r) == run[r].pc \in {"done", "error", "off"}

\* the file at the output path: absent, a file left by something else ("old"),
\* or a card written by run writer
NoFile(kind) ==
    [kind |-> kind, path |-> <<>>, text |-> "none", cards |-> <<>>, grad |-> GRAD_CLOUDY,
     streaks |-> NoStreaks, size |-> <<0, 0>>, texts |-> <<>>, pasted |-> <<>>, writer |-> 0]

Goto(r, pc) == run' = [run EXCEPT ![r].pc = pc]

Fail(r, exc, at) == run' = [run EXCEPT ![r].pc = "error", ![r].exc = exc, ![r].at = at]

\* payload = load_payload()
LoadPayload(r) ==
    /\ run[r].pc = "start"
    /\ \A q \in RunIds : q < r => Finished(q)
    /\ LET lp == load_payload(event)
       IN  IF lp.ok
           THEN run' = [run EXCEPT ![r].pc = "loaded", ![r].payload = lp.p]
           ELSE Fail(r, lp.exc, "load_payload")
    /\ UNCHANGED <<event, argv, assets, clock, file, harnessVars>>

\* job_id = ...; cities = payload.get("cities") or []; tz = payload.get("tz","")
ReadPayload(r) ==
    /\ run[r].pc = "loaded"
    /\ IF run[r].payload.k = "dict"
       THEN run' = [run EXCEPT ![r].pc = "read",
                               ![r].job_id = job_id_of(run[r].payload),
                               ![r].cities = run[r].payload.cities]
       ELSE Fail(r, "AttributeError", "payload.get")
    /\ UNCHANGED <<event, argv, assets, clock, file, harnessVars>>

\* OUT_DIR.mkdir(parents=True, exist_ok=True); out_path = OUT_DIR / f"{job_id}.png"
MakeOutDir(r) ==
    /\ run[r].pc = "read"
    /\ \/ run' = [run EXCEPT ![r].pc = "outdir", ![r].out_path = out_path_of(run[r].job_id)]
       \/ Fail(r, "OSError", "mkdir")
    /\ UNCHANGED <<event, argv, assets, clock, file, harnessVars>>

\* dom_code = int(to_float(((cities or [{}])[0].get("current") or {}).get("code", 3)))
\* the gradient, the vignette and, for a rain code, the rain overlay
SkyBackground(r) ==
    /\ run[r].pc = "outdir"
    /\ LET first == IF run[r].cities = <<>> THEN CityEmpty ELSE run[r].cities[1]
           code == IntTrunc(to_float(CurField(first, "code", Num(30))))
       IN  IF first.k = "null" THEN Fail(r, "AttributeError", "dom_code")
           ELSE IF ~code.ok THEN Fail(r, code.exc, "dom_code")
           ELSE run' = [run EXCEPT ![r].pc = "sky", ![r].dom_code = code.v,
                                   ![r].grad = grad_by_code(code.v),
                                   ![r].streaks = IF rain_overlay(code.v) THEN rain_streaks
                                                  ELSE NoStreaks]
    /\ UNCHANGED <<event, argv, assets, clock, file, harnessVars>>

\* fonts = {"title": load_font(.., True), ..., "chip": load_font(..)}
LoadFonts(r) ==
    /\ run[r].pc = "sky"
    /\ LET bold == load_font(TRUE, assets.fonts, assets.sys)
           reg == load_font(FALSE, assets.fonts, assets.sys)
       IN  IF ~bold.ok THEN Fail(r, bold.exc, "load_font")
           ELSE IF ~reg.ok THEN Fail(r, reg.exc, "load_font")
           ELSE run' = [run EXCEPT ![r].pc = "fonts",
                                   ![r].fonts = bold.s \o bold.s \o bold.s \o reg.s \o reg.s \o reg.s]
    /\ UNCHANGED <<event, argv, assets, clock, file, harnessVars>>

\* if len(cities) < 2: the "not enough data" card is drawn and saved; return
SavePlaceholder(r) ==
    /\ run[r].pc = "fonts"
    /\ Len(run[r].cities) < 2
    /\ \/ /\ file' = [kind |-> "placeholder", path |-> run[r].out_path,
                      text |-> "Nedostatochno dannyh", cards |-> <<>>, grad |-> run[r].grad,
                      streaks |-> run[r].streaks, size |-> <<BASE_W, BASE_H>>, texts |-> <<>>,
                      pasted |-> <<>>, writer |-> r]
          /\ Goto(r, "done")
       \/ /\ Fail(r, "OSError", "save")
          /\ UNCHANGED file
    /\ UNCHANGED <<event, argv, assets, clock, harnessVars>>

\* DrawCityCard saving the canvas to out_path after each card it draws
DrawCityCard_SavingEachCard(r) ==
    /\ run[r].pc = "fonts"
    /\ Len(run[r].cities) >= 2
    /\ LET i == Len(run[r].cards) + 1
           res == draw_city_card(i, run[r].cities[i], run[r].payload, assets.icons, clock[r])
       IN  IF res.ok
           THEN /\ run' = [run EXCEPT ![r].cards = Append(@, res.card),
                                      ![r].pc = IF i = 2 THEN "drawn" ELSE "fonts"]
                /\ file' = [kind |-> "two_city", path |-> run[r].out_path, text |-> "none",
                            cards |-> Append(run[r].cards, res.card), grad |-> run[r].grad,
                            streaks |-> run[r].streaks, size |-> <<BASE_W, BASE_H>>,
                            texts |-> <<>>, pasted |-> <<>>, writer |-> r]
           ELSE Fail(r, res.exc, "draw_city_card") /\ UNCHANGED file
    /\ UNCHANGED <<event, argv, assets, clock, harnessVars>>

\* draw_city_card(bg, cx1, .., cities[0], ..); draw_city_card(bg, cx2, .., cities[1], ..)
DrawCityCard(r) ==
    /\ run[r].pc = "fonts"
    /\ Len(run[r].cities) >= 2
    /\ LET i == Len(run[r].cards) + 1
           res == draw_city_card(i, run[r].cities[i], run[r].payload, assets.icons, clock[r])
       IN  IF res.ok
           THEN run' = [run EXCEPT ![r].cards = Append(@, res.card),
                                   ![r].pc = IF i = 2 THEN "drawn" ELSE "fonts"]
           ELSE Fail(r, res.exc, "draw_city_card")
    /\ UNCHANGED <<event, argv, assets, clock, file, harnessVars>>

\* the divider; final = bg.resize((BASE_W, BASE_H)); final.save(out_path)
SaveCard(r) ==
    /\ run[r].pc = "drawn"
    /\ \/ /\ file' = [kind |-> "two_city", path |-> run[r].out_path, text |-> "none",
                      cards |-> run[r].cards, grad |-> run[r].grad,
                      streaks |-> run[r].streaks, size |-> <<BASE_W, BASE_H>>, texts |-> <<>>,
                      pasted |-> <<>>, writer |-> r]
          /\ Goto(r, "done")
       \/ /\ Fail(r, "OSError", "save")
          /\ UNCHANGED file
    /\ UNCHANGED <<event, argv, assets, clock, harnessVars>>

Main(r) ==
    \/ LoadPayload(r)
    \/ ReadPayload(r)
    \/ MakeOutDir(r)
    \/ SkyBackground(r)
    \/ LoadFonts(r)
    \/ SavePlaceholder(r)
    \/ DrawCityCard(r)
    \/ SaveCard(r)

----------------------------------------------------------------------------
(* render1.py: the plain-panel card, a script run top to bottom *)

\* the value of a key of the payload that should hold an object: missing, an
\* object, or text
NoTexts == [k |-> "missing", head |-> "", left |-> "", right |-> ""]
NoIcons == [k |-> "missing", c1 |-> "missing", c2 |-> "missing"]

TextsVals ==
    {NoTexts, [NoTexts EXCEPT !.k = "text"],
     [k |-> "dict", head |-> "Pogoda", left |-> "Moscow +18", right |-> ""]}

IconsVals ==
    {NoIcons, [NoIcons EXCEPT !.k = "text"]}
    \cup [k : {"dict"}, c1 : {"missing", "rain.png"}, c2 : {"missing", "sun.png"}]

EmptyArgv == [k |-> "dict", job_id |-> NoJobId, texts |-> NoTexts, icons |-> NoIcons]

\* sys.argv[1]: absent, not JSON, JSON other than an object, or an object
ArgvVals ==
    {[EmptyArgv EXCEPT !.k = kk] : kk \in {"noarg", "badjson", "nonobject"}}
    \cup [k : {"dict"}, job_id : JobIdVals, texts : TextsVals, icons : IconsVals]

NOID == <<"n", "o", "i", "d">>

\* job_id = str(payload.get("job_id", "noid"))
r1_job_id_of(p) == IF p.job_id.k = "missing" THEN NOID ELSE PyStr(p.job_id)

\* ICON1 = f"assets/icons/{icons.get('c1','_none.png')}"
r1_icon_name(c) == IF c = "missing" THEN "_none.png" ELSE c

\* the state of a file of assets/icons
IconFile(icons, name) == IF name \in IconNames THEN icons[name] ELSE "missing"

NewRun1 == [NewRun EXCEPT !.script = "render1", !.pc = "r1_start"]

\* payload = json.loads(sys.argv[1]); job_id, texts, icons; ICON1, ICON2
R1Parse(r) ==
    /\ run[r].pc = "r1_start"
    /\ CASE argv.k = "noarg" -> Fail(r, "IndexError", "sys.argv")
         [] argv.k = "badjson" -> Fail(r, "JSONDecodeError", "json.loads")
         [] argv.k = "nonobject" -> Fail(r, "AttributeError", "payload.get")
         [] argv.icons.k = "text" -> Fail(r, "AttributeError", "icons.get")
         [] OTHER -> run' = [run EXCEPT ![r].pc = "r1_parsed",
                                        ![r].job_id = r1_job_id_of(argv)]
    /\ UNCHANGED <<event, argv, assets, clock, file, harnessVars>>

\* img = Image.open(BASE_IMG).convert("RGBA"); draw = ImageDraw.Draw(img)
R1OpenBase(r) ==
    /\ run[r].pc = "r1_parsed"
    /\ IF assets.base = "ok" THEN Goto(r, "r1_base")
       ELSE Fail(r, IF assets.base = "missing" THEN "FileNotFoundError" ELSE "OSError",
                 "Image.open")
    /\ UNCHANGED <<event, argv, assets, clock, file, harnessVars>>

\* f_head = ImageFont.truetype(FONT_BOLD, 46); f_big = ImageFont.truetype(FONT_BOLD, 58)
R1Fonts(r) ==
    /\ run[r].pc = "r1_base"
    /\ IF assets.sys
       THEN run' = [run EXCEPT ![r].pc = "r1_fonts",
                               ![r].fonts = <<"DejaVuSans-Bold.ttf", "DejaVuSans-Bold.ttf">>]
       ELSE Fail(r, "OSError", "ImageFont.truetype")
    /\ UNCHANGED <<event, argv, assets, clock, file, harnessVars>>

\* draw.text(.., texts.get("head",""), ..) and the same for "left" and "right"
R1DrawText(r) ==
    /\ run[r].pc = "r1_fonts"
    /\ IF argv.texts.k = "text" THEN Fail(r, "AttributeError", "texts.get")
       ELSE run' = [run EXCEPT ![r].pc = "r1_text",
                               ![r].texts = <<argv.texts.head, argv.texts.left, argv.texts.right>>]
    /\ UNCHANGED <<event, argv, assets, clock, file, harnessVars>>

\* paste_icon(path, xy, size): pastes the icon when the file exists
paste_icon(icons, name) ==
    CASE IconFile(icons, name) = "missing" -> [ok |-> TRUE, s |-> <<>>, exc |-> "none"]
      [] IconFile(icons, name) = "corrupt" -> Raise("OSError")
      [] OTHER -> Ok(<<name>>)

\* paste_icon(ICON1, (100, 110), (120,120)); paste_icon(ICON2, (720, 110), (120,120))
R1PasteIcons(r) ==
    /\ run[r].pc = "r1_text"
    /\ LET p1 == paste_icon(assets.icons, r1_icon_name(argv.icons.c1))
           p2 == paste_icon(assets.icons, r1_icon_name(argv.icons.c2))
       IN  IF ~p1.ok THEN Fail(r, p1.exc, "paste_icon")
           ELSE IF ~p2.ok THEN Fail(r, p2.exc, "paste_icon")
           ELSE run' = [run EXCEPT ![r].pc = "r1_icons", ![r].pasted = p1.s \o p2.s]
    /\ UNCHANGED <<event, argv, assets, clock, file, harnessVars>>

\* os.makedirs("weather", exist_ok=True); out_path = f"weather/{job_id}.png"
\* img.save(out_path, "PNG")
R1Save(r) ==
    /\ run[r].pc = "r1_icons"
    /\ \/ /\ file' = [kind |-> "panel", path |-> out_path_of(run[r].job_id), text |-> "none",
                      cards |-> <<>>, grad |-> GRAD_CLOUDY, streaks |-> NoStreaks,
                      size |-> <<0, 0>>, texts |-> run[r].texts, pasted |-> run[r].pasted,
                      writer |-> r]
          /\ run' = [run EXCEPT ![r].pc = "done", ![r].out_path = out_path_of(run[r].job_id)]
       \/ /\ Fail(r, "OSError", "makedirs")
          /\ UNCHANGED file
       \/ /\ run' = [run EXCEPT ![r].pc = "error", ![r].exc = "OSError", ![r].at = "save",
                                ![r].out_path = out_path_of(run[r].job_id)]
          /\ UNCHANGED file
    /\ UNCHANGED <<event, argv, assets, clock, harnessVars>>

Render1(r) ==
    \/ R1Parse(r)
    \/ R1OpenBase(r)
    \/ R1Fonts(r)
    \/ R1DrawText(r)
    \/ R1PasteIcons(r)
    \/ R1Save(r)

----------------------------------------------------------------------------
(* Harnesses for the weather-code functions and the asset loaders *)

CodeVals == (-1)..MaxCode

NoChoice == [icon |-> "none", grad |-> <<>>, overlay |-> "none"]

IconsOk == [n \in IconNames |-> "ok"]

CodeInit ==
    /\ cin \in CodeVals
    /\ cres = NoChoice

\* load_icon(code, icon_h) in draw_city_card, every icon file present
UseIconPath ==
    /\ cres.icon = "none"
    /\ cres' = [cres EXCEPT !.icon = icon_path(cin, IconsOk)]
    /\ UNCHANGED <<cin, fmtVars, dateVars, mainVars, assetVars>>

\* top_col, bot_col = grad_by_code(dom_code)
UseGradByCode ==
    /\ cres.grad = <<>>
    /\ cres' = [cres EXCEPT !.grad = grad_by_code(cin)]
    /\ UNCHANGED <<cin, fmtVars, dateVars, mainVars, assetVars>>

\* if dom_code in (...): draw_rain_overlay(bg, intensity=0.10)
UseRainOverlay ==
    /\ cres.overlay = "none"
    /\ cres' = [cres EXCEPT !.overlay = IF rain_overlay(cin) THEN "drawn" ELSE "skipped"]
    /\ UNCHANGED <<cin, fmtVars, dateVars, mainVars, assetVars>>

FontFiles == [name : FontNames, st : {"ok", "corrupt"}]

\* directory listings: no two files of a name
FontDirs ==
    {d \in SeqsUpTo(FontFiles, Cardinality(FontNames)) :
        \A i, j \in 1..Len(d) : i # j => d[i].name # d[j].name}

FontsOk == <<[name |-> "Roboto-Bold.ttf", st |-> "ok"], [name |-> "Roboto-Regular.ttf", st |-> "ok"]>>

AssetsOk == [fonts |-> FontsOk, sys |-> TRUE, icons |-> IconsOk, base |-> "ok"]

IconCodes == {0, 3, 55, 61, 71, 95}

NoAsset == [ok |-> TRUE, s |-> <<>>, exc |-> "none", by |-> "none"]

AssetInit ==
    /\ \/ /\ areq \in [what : {"font"}, bold : BOOLEAN, code : {0}]
          /\ assets \in [fonts : FontDirs, sys : BOOLEAN, icons : {IconsOk}, base : {"ok"}]
       \/ /\ areq \in [what : {"icon"}, bold : {FALSE}, code : IconCodes]
          /\ assets \in [fonts : {FontsOk}, sys : {TRUE}, icons : [IconNames -> FileStates],
                        base : {"ok"}]
    /\ ares = NoAsset

\* load_font(size, bold)
LoadFont ==
    /\ ares.by = "none"
    /\ areq.what = "font"
    /\ ares' = By(load_font(areq.bold, assets.fonts, assets.sys), "load_font")
    /\ UNCHANGED <<areq, fmtVars, dateVars, mainVars, codeVars>>

\* load_icon(code, height)
LoadIcon ==
    /\ ares.by = "none"
    /\ areq.what = "icon"
    /\ ares' = By(Ok(<<load_icon(areq.code, assets.icons)>>), "load_icon")
    /\ UNCHANGED <<areq, fmtVars, dateVars, mainVars, codeVars>>

----------------------------------------------------------------------------
(* Specifications *)

FmtIdle == fin = [field |-> "temp", raw |-> Num(0)] /\ fres = NoRes

DateIdle ==
    /\ din = [date |-> NoDate, tz |-> "", now |-> <<2026, 10, 31>>, zi |-> TRUE]
    /\ dres = NoLabel

CodeIdle == cin = 3 /\ cres = NoChoice

AssetIdle == areq = [what |-> "font", bold |-> FALSE, code |-> 0] /\ ares = NoAsset

MainIdle ==
    /\ event = [k |-> "unset", cp |-> EmptyPayload]
    /\ argv = EmptyArgv
    /\ clock = [r \in RunIds |-> <<2026, 10, 31>>]
    /\ run = [r \in RunIds |-> NoRun]
    /\ file = NoFile("absent")

\* the assets directories tried by the runs of main
AssetsBoldCorrupt ==
    [AssetsOk EXCEPT !.fonts = <<[name |-> "Roboto-Bold.ttf", st |-> "corrupt"],
                                 [name |-> "Roboto-Regular.ttf", st |-> "ok"]>>]

AssetsBare ==
    [fonts |-> <<>>, sys |-> FALSE, icons |-> [n \in IconNames |-> "missing"], base |-> "ok"]

AssetsCustom ==
    [fonts |-> <<[name |-> "Custom.ttf", st |-> "ok"]>>, sys |-> TRUE,
     icons |-> [IconsOk EXCEPT !["rain.png"] = "corrupt"], base |-> "ok"]

MainAssets == {AssetsOk, AssetsBoldCorrupt, AssetsBare, AssetsCustom}

MainDates == {Iso(2024, 9, 4), NoDate, Iso(MAXYEAR, 12, 31)}

\* one run of scripts/render.py on any event file
InitRender ==
    /\ event \in Events(Payloads(JobIdVals, MainDates, {"Europe/Moscow"},
                                 SeqsUpTo(CityVals, MaxCities)))
    /\ argv = EmptyArgv
    /\ assets \in MainAssets
    /\ run = [r \in RunIds |-> IF r = 1 THEN NewRun ELSE NoRun]

\* one run of render1.py on any argument
InitRender1 ==
    /\ event = [k |-> "unset", cp |-> EmptyPayload]
    /\ argv \in ArgvVals
    /\ assets \in {[a EXCEPT !.base = b] : a \in MainAssets, b \in FileStates}
    /\ run = [r \in RunIds |-> IF r = 1 THEN NewRun1 ELSE NoRun]

Init ==
    /\ InitRender \/ InitRender1
    /\ clock = [r \in RunIds |-> <<2026, 10, 31>>]
    /\ file \in {NoFile("absent"), NoFile("old")}
    /\ FmtIdle /\ DateIdle /\ CodeIdle /\ AssetIdle

Next == \E r \in RunIds : Main(r) \/ Render1(r)

Spec == Init /\ [][Next]_vars

\* two runs of main(), one after the other, on the same event file and the
\* same assets, each at its own time
InitTwice ==
    /\ event \in [k : {"cp_dict"},
                  cp : Payloads({Str(<<"a", "b", "c", "1", "2", "3">>)},
                                {Iso(2024, 9, 4), NoDate,
                                 [k |-> "text", y |-> 0, m |-> 0, d |-> 0]},
                                {"", "Europe/Moscow"},
                                SeqsUpTo({Moscow, Novokuznetsk, CityEmpty}, 2))]
    /\ argv = EmptyArgv
    /\ assets \in {AssetsOk, AssetsBare}
    /\ clock \in [RunIds -> Clocks]
    /\ run = [r \in RunIds |-> NewRun]
    /\ file = NoFile("absent")
    /\ FmtIdle /\ DateIdle /\ CodeIdle /\ AssetIdle

NextTwice == \E r \in RunIds : Main(r)

SpecTwice == InitTwice /\ [][NextTwice]_vars

InitFmt == FmtInit /\ DateIdle /\ MainIdle /\ assets = AssetsOk /\ CodeIdle /\ AssetIdle

FmtNext == FmtTemp \/ FmtTempFull \/ FmtWind \/ FmtRain

SpecFmt == InitFmt /\ [][FmtNext]_vars

InitDate == DateInit /\ FmtIdle /\ MainIdle /\ assets = AssetsOk /\ CodeIdle /\ AssetIdle

DateNext == TomorrowLabel

SpecDate == InitDate /\ [][DateNext]_vars

InitCode == CodeInit /\ FmtIdle /\ DateIdle /\ MainIdle /\ assets = AssetsOk /\ AssetIdle

CodeNext == UseIconPath \/ UseGradByCode \/ UseRainOverlay

SpecCode == InitCode /\ [][CodeNext]_vars

InitAssets == AssetInit /\ FmtIdle /\ DateIdle /\ CodeIdle /\ MainIdle

AssetNext == LoadFont \/ LoadIcon

SpecAssets == InitAssets /\ [][AssetNext]_vars

----------------------------------------------------------------------------
(* The claims *)

Render(r) == run[r].script = "render" /\ run[r].pc # "off"

(* C1: for every payload whose cities value holds 0, 1, 2 or more than 2    *)
(* city records (empty and null records included), a run of main() renders  *)
(* exactly 2 city columns, draw_city_card being invoked exactly twice, and  *)
(* never raises.                                                            *)
C1_TwoColumnsNeverRaises ==
    \A r \in RunIds :
        (Render(r) /\ event.k = "cp_dict") =>
            /\ run[r].at \notin {"dom_code", "draw_city_card"}
            /\ run[r].pc = "done" => Len(run[r].cards) = 2 /\ Len(file.cards) = 2

(* C2: every numeric formatter is total: for every input value of temp,     *)
(* wind, tmin, tmax and precip_prob (missing, null, non-numeric text, out   *)
(* of range, NaN or infinite) it returns a display string and never raises. *)
C2_FormattersTotal == fres.by # "none" => fres.ok /\ Len(fres.s) > 0

(* C3: load_payload never fails: when the event source is absent,           *)
(* unreadable, not valid JSON, or valid JSON of an unexpected shape, it     *)
(* returns the empty-default payload, and the run that follows still        *)
(* completes and writes the placeholder card.                               *)
C3_LoadPayloadNeverFails ==
    \A r \in RunIds :
        (Render(r) /\ event.k # "cp_dict") =>
            /\ run[r].at \notin {"load_payload", "payload.get"}
            /\ run[r].pc \notin {"start", "error"} => run[r].payload = EmptyPayload
            /\ run[r].pc = "done" => file.kind = "placeholder"

(* C4: the write of the output PNG is the last step that can fail: a run    *)
(* that ends in an error ends before the output file is created or          *)
(* modified, so the file at the output path is either as it was before the  *)
(* run or a completely rendered card, on the placeholder path and on the    *)
(* two-city path (and in render1.py).                                       *)
CompleteCard(f, r) ==
    /\ f.writer = r
    /\ f.path = run[r].out_path
    /\ f.path # <<>>
    /\ \/ /\ f.kind = "placeholder"
          /\ f.text = "Nedostatochno dannyh"
          /\ f.cards = <<>>
          /\ f.size = <<BASE_W, BASE_H>>
          /\ Len(run[r].fonts) = 6
       \/ /\ f.kind = "two_city"
          /\ Len(f.cards) = 2
          /\ f.cards[1].cx < f.cards[2].cx
          /\ f.size = <<BASE_W, BASE_H>>
          /\ Len(run[r].fonts) = 6
       \/ /\ f.kind = "panel"
          /\ Len(f.texts) = 3
          /\ run[r].script = "render1"

Output(r) == <<run[r].out_path, run[r].cards, run[r].grad, run[r].streaks, run[r].fonts>>

C5_TwoRunsSameOutput ==
    (run[1].pc = "done" /\ run[2].pc = "done") => Output(1) = Output(2)

(* C6 as stated: for every valid date and every timezone string,            *)
(* tomorrow_label returns "{short weekday}, {day} {short month}" of the     *)
(* calendar day after date.                                                 *)

\* the day after a day of the calendar
NextDay(y, m, d) ==
    IF d < DaysInMonth(y, m) THEN <<y, m, d + 1>>
    ELSE IF m < 12 THEN <<y, m + 1, 1>>
    ELSE <<y + 1, 1, 1>>

\* the day of the week of a date, Monday 0, by Sakamoto's congruence
DayOfWeek(y, m, d) ==
    LET t == <<0, 3, 2, 5, 0, 3, 5, 1, 4, 6, 2, 4>>
        yy == IF m < 3 THEN y - 1 ELSE y
        sunday0 == (yy + yy \div 4 - yy \div 100 + yy \div 400 + t[m] + d) % 7
    IN  (sunday0 + 6) % 7

LabelOf(day) ==
    <<RU_DOW[DayOfWeek(day[1], day[2], day[3]) + 1], ",", " ">> \o Digits(day[3])
    \o <<" ", RU_MON[day[2]]>>

IsFinite(raw) == raw.k \notin {"nan", "inf", "ninf"}

\* the number a finite raw value stands for, in tenths
TempValue(raw) == IF raw.k \in {"num", "numtext"} THEN raw.n ELSE 0

RECURSIVE ParseNat(_)
\* the number a sequence of decimal digits writes
ParseNat(ds) ==
    IF ds = <<>> THEN 0
    ELSE 10 * ParseNat(SubSeq(ds, 1, Len(ds) - 1))
         + (CHOOSE d \in 0..9 : Digit(d) = ds[Len(ds)])

\* a formatted temperature without its unit
Body(s) == IF s[Len(s)] = "degC" THEN SubSeq(s, 1, Len(s) - 1) ELSE s

\* the integer a signed display string writes
Shown(s) == (IF Head(Body(s)) = "-" THEN -1 ELSE 1) * ParseNat(Tail(Body(s)))

C7_RoundHalfAwayFromZero ==
    (fres.by \in {"fmt_temp", "fmt_temp_full"} /\ IsFinite(fin.raw)) =>
        /\ fres.ok
        /\ Head(fres.s) \in {"+", "-"}
        /\ Shown(fres.s) = RoundHalfAway(TempValue(fin.raw))

(* C7, amended: fmt_temp and fmt_temp_full round the value to the nearest   *)
(* integer with ties rounded to the even integer (9.7 gives +10, 0.5 gives  *)
(* +0, 1.5 gives +2, 2.5 gives +2, -2.5 gives -2) and always print an       *)
(* explicit sign, '+' for zero and positive results and '-' for negative    *)
(* ones; the range chip uses the same formatter for tmin and tmax.          *)
C7_RoundHalfEvenSigned ==
    (fres.by \in {"fmt_temp", "fmt_temp_full"} /\ IsFinite(fin.raw)) =>
        LET v == TempValue(fin.raw)
            i == Shown(fres.s)
        IN  /\ fres.ok
            /\ Head(fres.s) \in {"+", "-"}
            /\ Head(fres.s) = "-" <=> i < 0
            /\ Abs(10 * i - v) <= 5
            /\ Abs(10 * i - v) = 5 => i % 2 = 0
            /\ fin.field \in {"tmin", "tmax"} =>
                  fres.by = "fmt_temp_full" /\ fres.s[Len(fres.s)] = "degC"
            /\ (fin.raw = Num(97) /\ fin.field = "temp") => fres.s = <<"+", "1", "0">>

\* the tie 2.5 formatted as +2
C7_TieFormatted ==
    /\ fin.raw = Num(25)
    /\ fres.by = "fmt_temp"
    /\ fres.s = <<"+", "2">>

(* C8 as stated: the output path is a function of job_id alone: the file is *)
(* written at <output_dir>/<job_id>.png with job_id used unchanged as an    *)
(* opaque filename stem, and a payload without job_id is written to         *)
(* weather/no_job.png.                                                      *)
Alnum ==
    {"a", "b", "c", "d", "e", "f", "g", "h", "i", "j", "k", "l", "m", "n", "o", "p", "q", "r",
     "s", "t", "u", "v", "w", "x", "y", "z", "0", "1", "2", "3", "4", "5", "6", "7", "8", "9"}

\* the text of a job_id value as the payload gives it
Given(j) == IF j.k = "str" THEN j.s ELSE IF j.k = "int" THEN Digits(j.n) ELSE <<>>

HasPath(r) == run[r].out_path # <<>>

Stem(r) == SubSeq(run[r].out_path, 3, Len(run[r].out_path) - 1)

\* s is t without whitespace around it
Trimmed(s, t) ==
    /\ s # <<>> => Head(s) \notin Whitespace /\ s[Len(s)] \notin Whitespace
    /\ \E i \in 1..(Len(t) + 1) :
          /\ SubSeq(t, i, i + Len(s) - 1) = s
          /\ \A k \in 1..Len(t) : (k < i \/ k >= i + Len(s)) => t[k] \in Whitespace

Loads(dir, name) == \E i \in 1..Len(dir) : dir[i].name = name /\ dir[i].st = "ok"

FirstFontThatLoads(bold, dir, sys) ==
    LET pref == IF bold THEN "Roboto-Bold.ttf" ELSE "Roboto-Regular.ttf"
        good == {i \in 1..Len(dir) : dir[i].st = "ok"}
    IN  IF Loads(dir, pref) THEN pref
        ELSE IF good # {} THEN dir[CHOOSE i \in good : \A k \in good : i <= k].name
        ELSE IF sys THEN (IF bold THEN "DejaVuSans-Bold.ttf" ELSE "DejaVuSans.ttf")
        ELSE "load_default"

FirstIconThatLoads(c, icons) ==
    IF icons[icon_name(c)] = "ok" THEN icon_name(c)
    ELSE IF icons["cloud.png"] = "ok" THEN "cloud.png"
    ELSE "transparent"

C9_AssetsNeverRaise ==
    /\ ares.by = "load_font" =>
          ares.ok /\ ares.s = <<FirstFontThatLoads(areq.bold, assets.fonts, assets.sys)>>
    /\ ares.by = "load_icon" =>
          ares.ok /\ ares.s = <<FirstIconThatLoads(areq.code, assets.icons)>>

(* C10: every integer weather code belongs to exactly one condition class   *)
(* among clear, cloudy, rain, snow, storm, unrecognized codes being cloudy, *)
(* and for each code the icon chosen by icon_path, the sky gradient chosen  *)
(* by grad_by_code and the decision in main to draw the rain overlay all    *)
(* correspond to the same class.                                            *)
IconClass(name) ==
    CASE name = "sun.png" -> "clear"
      [] name = "rain.png" -> "rain"
      [] name = "snow.png" -> "snow"
      [] name = "storm.png" -> "storm"
      [] OTHER -> "cloudy"

GradClass(g) ==
    CASE g = GRAD_CLEAR -> "clear"
      [] g = GRAD_RAIN -> "rain"
      [] g = GRAD_SNOW -> "snow"
      [] g = GRAD_STORM -> "storm"
      [] OTHER -> "cloudy"

C10_OneClassPerCode ==
    (cres.icon # "none" /\ cres.grad # <<>> /\ cres.overlay # "none") =>
        /\ IconClass(cres.icon) = GradClass(cres.grad)
        /\ cres.overlay = "drawn" <=> IconClass(cres.icon) = "rain"

====
